---- MODULE Spec2Model ----
(***************************************************************************)
(* Model of the nutrition dashboard script src/main.py.                    *)
(*                                                                         *)
(* One run of the script is: the Refresh Data button, the cached load of   *)
(* the Airtable records, the two guards that stop the run, the sidebar     *)
(* date range, the date filter, the "today" card with its deltas against   *)
(* the range average, the daily totals behind the trend charts and the     *)
(* top-10 food ranking.  Streamlit runs the script again on every widget   *)
(* interaction.                                                            *)
(*                                                                         *)
(* A float is <<>> (NaN) or a fraction <<num, den>> with den >= 1.         *)
(* A timestamp is a number of hours since an epoch, in UTC.                *)
(* An item name is modelled by its rank in the lexical order of names.     *)
(* The script's seven card columns are modelled by "Calories (kcal)", the  *)
(* two further columns of the trend charts by "Sugar (g)".                 *)
(* A record may lack any nutrient field; a column that no record has does  *)
(* not exist in the frame, and aggregating it raises a KeyError.           *)
(***************************************************************************)
EXTENDS Integers, Sequences, FiniteSets, TLC

\* ------------------------------------------------------------------ bounds
MaxRecords == 2
MaxDate == 3
MaxRankRows == 11

\* ------------------------------------------------------- program constants
SGOffsetHours == 8
HoursPerDay == 24
TopN == 10

\* ------------------------------------------------------------------ floats
NaN == <<>>
Num(n) == <<n, 1>>
isna(x) == x = NaN
FloatEq(a, b) == IF isna(a) \/ isna(b) THEN FALSE ELSE a[1] * b[2] = b[1] * a[2]
FloatLess(a, b) == IF isna(a) \/ isna(b) THEN FALSE ELSE a[1] * b[2] < b[1] * a[2]
FloatAdd(a, b) ==
    IF isna(a) \/ isna(b) THEN NaN ELSE <<a[1] * b[2] + b[1] * a[2], a[2] * b[2]>>
FloatSub(a, b) ==
    IF isna(a) \/ isna(b) THEN NaN ELSE <<a[1] * b[2] - b[1] * a[2], a[2] * b[2]>>
FloatDiv(a, n) == IF isna(a) \/ n = 0 THEN NaN ELSE <<a[1], a[2] * n>>

\* ----------------------------------------------------------------- columns
CardKeys == {"Calories (kcal)"}
TotalsKeys == {"Calories (kcal)", "Sugar (g)"}
nutrients == TotalsKeys

\* ------------------------------------------------------------------- dates
Dates == 1..MaxDate
today_date == MaxDate

\* The calendar date, in Asia/Singapore, of a UTC timestamp.
DateOf(ts) == (ts + SGOffsetHours) \div HoursPerDay

\* One logging instant per Singapore day: 23:00 local on odd days (the same
\* UTC day), 00:00 local on even days (the UTC day before).
StampOf(d) == HoursPerDay * d - SGOffsetHours + (IF d % 2 = 1 THEN HoursPerDay - 1 ELSE 0)
Timestamps == {StampOf(d) : d \in Dates}

\* ------------------------------------------------------- Airtable records
Amounts == [TotalsKeys -> {NaN, Num(0), Num(1)}]
SparseAmounts ==
    {a \in Amounts : a["Sugar (g)"] # Num(0)}

ItemAt(i) == ((i - 1) % 2) + 1

\* Tables of at most MaxRecords records; the i-th record logs item ItemAt(i).
Tables(n) ==
    {t \in [1..n -> [InputDate : Timestamps, ItemName : 1..2, fields : SparseAmounts]] :
        \A i \in 1..n : t[i].ItemName = ItemAt(i)}
MainTables == UNION {Tables(n) : n \in 0..MaxRecords}

\* Tables for the food ranking: n records logged on days 1, 2, ... in a cycle,
\* items 1..m in a cycle (m = n: all distinct; m = n - 1: the last record
\* repeats item 1), one column absent or 1, the other column always 2.
RankRow(i, m, present) ==
    [InputDate |-> StampOf(((i - 1) % MaxDate) + 1),
     ItemName |-> ((i - 1) % m) + 1,
     fields |-> [k \in TotalsKeys |->
                    IF k = "Sugar (g)" THEN Num(2)
                    ELSE IF i \in present THEN Num(1) ELSE NaN]]
RankTables ==
    {<<>>} \cup
    UNION {{[i \in 1..n |-> RankRow(i, m, present)] :
                m \in {n, n - 1} \ {0}, present \in SUBSET (1..n)} :
           n \in 1..MaxRankRows}

\* --------------------------------------------------------------- variables
VARIABLES
    airtable,           \* the records of the Airtable table
    cache,              \* st.cache_data's entry for get_airtable_data
    refresh,            \* whether this run was started by the Refresh button
    pc,                 \* the position of the run in the script
    df,                 \* what get_airtable_data returned
    date_range,         \* the tuple the sidebar date input returned
    filtered_df,
    today_metrics,
    daily_metrics,
    card,               \* per card column, the value and delta handed to st.metric
    daily_totals,
    selected_nutrient,
    nutrient_by_food

vars == <<airtable, cache, refresh, pc, df, date_range, filtered_df, today_metrics,
          daily_metrics, card, daily_totals, selected_nutrient, nutrient_by_food>>

\* ------------------------------------------------------------- data frames
None == [kind |-> "None", rows |-> <<>>]
NoCache == [kind |-> "NoCache", rows |-> <<>>]
DataFrame(rows) == [kind |-> "DataFrame", rows |-> rows]

\* get_airtable_data, when the fetch and the parse succeed: the Date column is
\* the Singapore calendar date of Input Date.
ParseRecords(records) ==
    DataFrame([i \in 1..Len(records) |->
        [Date |-> DateOf(records[i].InputDate),
         ItemName |-> records[i].ItemName,
         fields |-> records[i].fields]])

\* pd.DataFrame(list of dicts): a column exists when some record has the field;
\* the records without it hold NaN there.
HasColumn(frame, k) == \E i \in 1..Len(frame.rows) : ~isna(frame.rows[i].fields[k])
HasColumns(frame, keys) == \A k \in keys : HasColumn(frame, k)

\* ------------------------------------------------------- pandas operations
RECURSIVE SortedSeq(_)
SortedSeq(S) ==
    IF S = {} THEN <<>>
    ELSE LET m == CHOOSE x \in S : \A y \in S : x <= y
         IN <<m>> \o SortedSeq(S \ {m})

\* Series.sum(): NaN is skipped, the sum of nothing is 0.
RECURSIVE SeriesSum(_, _)
SeriesSum(rows, k) ==
    IF rows = <<>> THEN Num(0)
    ELSE LET v == Head(rows).fields[k]
         IN IF isna(v) THEN SeriesSum(Tail(rows), k)
            ELSE FloatAdd(v, SeriesSum(Tail(rows), k))

\* Series.mean() of a column of a frame of sums: NaN on no rows.
RECURSIVE TotalOf(_, _)
TotalOf(frame, k) ==
    IF frame = <<>> THEN Num(0)
    ELSE FloatAdd(Head(frame).sums[k], TotalOf(Tail(frame), k))
SeriesMean(frame, k) == FloatDiv(TotalOf(frame, k), Len(frame))

\* A filter that leaves out the last day of the range.
FilterRangeExclusive(rows, range) ==
    SelectSeq(rows, LAMBDA r : r.Date >= range[1] /\ r.Date < range[2])

\* df[(df['Date'] >= date_range[0]) & (df['Date'] <= date_range[1])]
FilterRange(rows, range) ==
    SelectSeq(rows, LAMBDA r : r.Date >= range[1] /\ r.Date <= range[2])

\* A running total in place of the per-day sum: each day also takes the days before it.
GroupByDateCumSum(rows, keys) ==
    LET days == SortedSeq({rows[i].Date : i \in 1..Len(rows)})
    IN [j \in 1..Len(days) |->
          [Date |-> days[j],
           sums |-> [k \in keys |->
                       SeriesSum(SelectSeq(rows, LAMBDA r : r.Date <= days[j]), k)]]]

\* groupby('Date').agg({k: 'sum'}): one row per Date among the rows, by Date.
GroupByDateSum(rows, keys) ==
    LET days == SortedSeq({rows[i].Date : i \in 1..Len(rows)})
    IN [j \in 1..Len(days) |->
          [Date |-> days[j],
           sums |-> [k \in keys |->
                       SeriesSum(SelectSeq(rows, LAMBDA r : r.Date = days[j]), k)]]]

\* groupby('Item Name')[k].sum(): one row per item among the rows, by name.
GroupByItemSum(rows, k) ==
    LET items == SortedSeq({rows[i].ItemName : i \in 1..Len(rows)})
    IN [j \in 1..Len(items) |->
          [ItemName |-> items[j],
           sum |-> SeriesSum(SelectSeq(rows, LAMBDA r : r.ItemName = items[j]), k)]]

\* sort_values(ascending=False): by sum, largest first, ties in the order given.
RECURSIVE InsertDesc(_, _)
InsertDesc(row, sorted) ==
    IF sorted = <<>> THEN <<row>>
    ELSE IF FloatLess(Head(sorted).sum, row.sum) THEN <<row>> \o sorted
    ELSE <<Head(sorted)>> \o InsertDesc(row, Tail(sorted))
\* sort_values() with its default, ascending=True.
RECURSIVE InsertAsc(_, _)
InsertAsc(row, sorted) ==
    IF sorted = <<>> THEN <<row>>
    ELSE IF FloatLess(row.sum, Head(sorted).sum) THEN <<row>> \o sorted
    ELSE <<Head(sorted)>> \o InsertAsc(row, Tail(sorted))
RECURSIVE SortValuesAsc(_)
SortValuesAsc(series) ==
    IF series = <<>> THEN <<>>
    ELSE InsertAsc(series[Len(series)], SortValuesAsc(SubSeq(series, 1, Len(series) - 1)))

RECURSIVE SortValuesDesc(_)
SortValuesDesc(series) ==
    IF series = <<>> THEN <<>>
    ELSE InsertDesc(series[Len(series)], SortValuesDesc(SubSeq(series, 1, Len(series) - 1)))

head(series, n) == SubSeq(series, 1, IF Len(series) < n THEN Len(series) ELSE n)

\* ------------------------------------------------- the script's expressions
\* Today's sums taken from the unfiltered frame.
TodayMetricsOfDf(filtered) ==
    [k \in CardKeys |-> SeriesSum(SelectSeq(df.rows, LAMBDA r : r.Date = today_date), k)]

TodayMetrics(filtered) ==
    [k \in CardKeys |-> SeriesSum(SelectSeq(filtered, LAMBDA r : r.Date = today_date), k)]

\* The mean of the entries' values in place of the mean of the daily sums.
DailyMetricsPerEntry(filtered) ==
    [k \in CardKeys |-> FloatDiv(SeriesSum(filtered, k), Len(filtered))]

DailyMetrics(filtered) ==
    [k \in CardKeys |-> SeriesMean(GroupByDateSum(filtered, CardKeys), k)]

\* calories_value / calories_delta and their six siblings.
MetricCard(today, average) ==
    [k \in CardKeys |->
        [value |-> IF ~isna(today[k]) THEN today[k] ELSE Num(0),
         has_delta |-> ~isna(today[k]),
         delta |-> IF ~isna(today[k]) THEN FloatSub(today[k], average[k]) ELSE NaN]]

DailyTotals(filtered) == GroupByDateSum(filtered, TotalsKeys)

NutrientByFood(filtered, k) == head(SortValuesDesc(GroupByItemSum(filtered, k)), TopN)

\* ------------------------------------------------------------------ actions
Unset == <<>>

RunVarsUnset ==
    /\ df' = NoCache
    /\ date_range' = Unset
    /\ filtered_df' = Unset
    /\ today_metrics' = Unset
    /\ daily_metrics' = Unset
    /\ card' = Unset
    /\ daily_totals' = Unset
    /\ selected_nutrient' = ""
    /\ nutrient_by_food' = Unset

Init ==
    /\ airtable \in MainTables
    /\ cache = NoCache
    /\ refresh = FALSE
    /\ pc = "button"
    /\ df = NoCache
    /\ date_range = Unset
    /\ filtered_df = Unset
    /\ today_metrics = Unset
    /\ daily_metrics = Unset
    /\ card = Unset
    /\ daily_totals = Unset
    /\ selected_nutrient = ""
    /\ nutrient_by_food = Unset

\* if st.sidebar.button("Refresh Data"): st.cache_data.clear()
ClearOnRefresh(pressed, entry) == IF pressed THEN NoCache ELSE entry
RefreshButton ==
    /\ pc = "button"
    /\ cache' = ClearOnRefresh(refresh, cache)
    /\ pc' = "load"
    /\ UNCHANGED <<airtable, refresh, df, date_range, filtered_df, today_metrics,
                   daily_metrics, card, daily_totals, selected_nutrient, nutrient_by_food>>

\* df = get_airtable_data(), a cache hit: the stored return value, None included.
LoadCached ==
    /\ pc = "load"
    /\ cache # NoCache
    /\ df' = cache
    /\ pc' = "guard"
    /\ UNCHANGED <<airtable, cache, refresh, date_range, filtered_df, today_metrics,
                   daily_metrics, card, daily_totals, selected_nutrient, nutrient_by_food>>

\* df = get_airtable_data(), a cache miss: any exception gives None, no records
\* give an empty frame, and the return value is stored.
LoadFetch ==
    /\ pc = "load"
    /\ cache = NoCache
    /\ \E raised \in BOOLEAN :
          df' = IF raised THEN None
                ELSE IF Len(airtable) = 0 THEN DataFrame(<<>>)
                ELSE ParseRecords(airtable)
    /\ cache' = df'
    /\ pc' = "guard"
    /\ UNCHANGED <<airtable, refresh, date_range, filtered_df, today_metrics,
                   daily_metrics, card, daily_totals, selected_nutrient, nutrient_by_food>>

\* if df is None: st.stop();  if len(df) == 0: st.stop()
MustStopOnNoneOnly(frame) == frame = None
MustStop(frame) == frame = None \/ Len(frame.rows) = 0
Guard ==
    /\ pc = "guard"
    /\ pc' = IF MustStop(df) THEN "stopped" ELSE "sidebar"
    /\ UNCHANGED <<airtable, cache, refresh, df, date_range, filtered_df, today_metrics,
                   daily_metrics, card, daily_totals, selected_nutrient, nutrient_by_food>>

\* date_range = st.sidebar.date_input(...): one or two dates between
\* min_value = df['Date'].min() and max_value = today_date.
actual_start_date(frame) ==
    CHOOSE d \in {frame.rows[i].Date : i \in 1..Len(frame.rows)} :
        \A i \in 1..Len(frame.rows) : d <= frame.rows[i].Date
DateInputs(frame) ==
    LET pick == actual_start_date(frame)..today_date
    IN {<<a>> : a \in pick} \cup {<<a, b>> : a \in pick, b \in pick}
Sidebar ==
    /\ pc = "sidebar"
    /\ date_range' \in DateInputs(df)
    /\ pc' = "filter"
    /\ UNCHANGED <<airtable, cache, refresh, df, filtered_df, today_metrics,
                   daily_metrics, card, daily_totals, selected_nutrient, nutrient_by_food>>

\* mask = ...date_range[0]... date_range[1]: an IndexError on a one-date tuple.
Filter ==
    /\ pc = "filter"
    /\ IF Len(date_range) < 2
       THEN /\ pc' = "crashed"
            /\ UNCHANGED filtered_df
       ELSE /\ filtered_df' = FilterRange(df.rows, date_range)
            /\ pc' = "summary"
    /\ UNCHANGED <<airtable, cache, refresh, df, date_range, today_metrics,
                   daily_metrics, card, daily_totals, selected_nutrient, nutrient_by_food>>

\* today_metrics, daily_metrics and the seven st.metric cards; agg raises a
\* KeyError on a column that no record has.
Summary ==
    /\ pc = "summary"
    /\ IF HasColumns(df, CardKeys)
       THEN /\ today_metrics' = TodayMetrics(filtered_df)
            /\ daily_metrics' = DailyMetrics(filtered_df)
            /\ card' = MetricCard(today_metrics', daily_metrics')
            /\ pc' = "trends"
       ELSE /\ pc' = "crashed"
            /\ UNCHANGED <<today_metrics, daily_metrics, card>>
    /\ UNCHANGED <<airtable, cache, refresh, df, date_range, filtered_df,
                   daily_totals, selected_nutrient, nutrient_by_food>>

\* daily_totals = filtered_df.groupby('Date').agg({...}).reset_index()
Trends ==
    /\ pc = "trends"
    /\ IF HasColumns(df, TotalsKeys)
       THEN /\ daily_totals' = DailyTotals(filtered_df)
            /\ pc' = "analysis"
       ELSE /\ pc' = "crashed"
            /\ UNCHANGED daily_totals
    /\ UNCHANGED <<airtable, cache, refresh, df, date_range, filtered_df, today_metrics,
                   daily_metrics, card, selected_nutrient, nutrient_by_food>>

\* selected_nutrient = st.selectbox(...); nutrient_by_food = ...head(10)
Analysis ==
    /\ pc = "analysis"
    /\ \E k \in nutrients :
          /\ selected_nutrient' = k
          /\ IF HasColumn(df, k)
             THEN /\ nutrient_by_food' = NutrientByFood(filtered_df, k)
                  /\ pc' = "done"
             ELSE /\ pc' = "crashed"
                  /\ UNCHANGED nutrient_by_food
    /\ UNCHANGED <<airtable, cache, refresh, df, date_range, filtered_df, today_metrics,
                   daily_metrics, card, daily_totals>>

\* Streamlit runs the script again, after a press of Refresh Data or of
\* another widget; a cache entry older than ttl=300 has been dropped by then.
Rerun ==
    /\ pc \in {"stopped", "crashed", "done"}
    /\ refresh' \in BOOLEAN
    /\ \E expired \in BOOLEAN : cache' = IF expired THEN NoCache ELSE cache
    /\ pc' = "button"
    /\ RunVarsUnset
    /\ UNCHANGED airtable

Next ==
    \/ RefreshButton
    \/ LoadCached
    \/ LoadFetch
    \/ Guard
    \/ Sidebar
    \/ Filter
    \/ Summary
    \/ Trends
    \/ Analysis
    \/ Rerun

Spec == Init /\ [][Next]_vars

\* ------------------------------------- the food ranking on larger tables
InitRank ==
    /\ airtable \in RankTables
    /\ cache = NoCache
    /\ refresh = FALSE
    /\ pc = "ranking"
    /\ df = ParseRecords(airtable)
    /\ date_range = Unset
    /\ filtered_df = Unset
    /\ today_metrics = Unset
    /\ daily_metrics = Unset
    /\ card = Unset
    /\ daily_totals = Unset
    /\ selected_nutrient = ""
    /\ nutrient_by_food = Unset

\* The date filter and the ranking, applied to a frame and a two-date range.
RankFoods ==
    /\ pc = "ranking"
    /\ \E a \in Dates, b \in Dates, k \in nutrients :
          /\ date_range' = <<a, b>>
          /\ filtered_df' = FilterRange(df.rows, date_range')
          /\ selected_nutrient' = k
          /\ IF HasColumn(df, k)
             THEN /\ nutrient_by_food' = NutrientByFood(filtered_df', k)
                  /\ pc' = "done"
             ELSE /\ pc' = "crashed"
                  /\ UNCHANGED nutrient_by_food
    /\ UNCHANGED <<airtable, cache, refresh, df, today_metrics, daily_metrics, card,
                   daily_totals>>

NextRank == RankFoods

SpecRank == InitRank /\ [][NextRank]_vars

\* ------------------------------------------------------ reference notions
\* What the properties below compare the script's results with: sums taken
\* directly over the entries, by index.
Amount(r, k) == IF isna(r.fields[k]) THEN 0 ELSE r.fields[k][1]

RECURSIVE DirectSum(_, _, _)
DirectSum(rows, I, k) ==
    IF I = {} THEN 0
    ELSE LET i == CHOOSE x \in I : TRUE
         IN Amount(rows[i], k) + DirectSum(rows, I \ {i}, k)

InSelectedRange(d) ==
    Len(date_range) = 2 /\ date_range[1] <= d /\ d <= date_range[2]

EntriesOn(rows, d) == {i \in 1..Len(rows) : rows[i].Date = d}
EntriesInRangeOn(d) == {i \in EntriesOn(df.rows, d) : InSelectedRange(d)}
EntriesInRange == {i \in 1..Len(df.rows) : InSelectedRange(df.rows[i].Date)}
DaysWithData == {d \in Dates : EntriesInRangeOn(d) # {}}

RECURSIVE SumOfDays(_, _)
SumOfDays(D, k) ==
    IF D = {} THEN 0
    ELSE LET d == CHOOSE x \in D : TRUE
         IN DirectSum(df.rows, EntriesInRangeOn(d), k) + SumOfDays(D \ {d}, k)

OrderedRange == Len(date_range) = 2 /\ date_range[1] <= date_range[2]

Summarised == pc \in {"trends", "analysis", "done"}
Totalled == pc \in {"analysis", "done"}

\* ------------------------------------------------------------------ claims

\* C1: for every day d and nutrient key k, the daily total that the
\* group-by-Date sum computes for (d, k) is the direct sum of k over exactly
\* the entries of the filtered set whose Date is d.
C1_DailyTotalIsDirectSum ==
    Totalled =>
        \A j \in 1..Len(daily_totals) : \A k \in TotalsKeys :
            daily_totals[j].sums[k] =
                Num(DirectSum(filtered_df, EntriesOn(filtered_df, daily_totals[j].Date), k))

\* C1 witness: two entries of one day, both with calories present, summed to 2.
C1_Witness ==
    /\ Totalled
    /\ Len(filtered_df) = 2
    /\ Len(daily_totals) = 1
    /\ daily_totals[1].sums["Calories (kcal)"] = Num(2)

\* C2 (as claimed): for a range with start <= end, when today has no entry,
\* today's totals are unavailable for every key, and the range average is
\* defined whenever some day of the range has entries.
C2_TodayUnavailableWithoutEntries ==
    (Summarised /\ OrderedRange /\ EntriesOn(df.rows, today_date) = {}) =>
        \A k \in CardKeys :
            /\ isna(today_metrics[k])
            /\ DaysWithData # {} => ~isna(daily_metrics[k])

\* C3 (as claimed): for a range with start <= end, the card's delta is today's
\* total minus the range average and is produced only when today has entries
\* and the range holds a day with data; otherwise no delta is displayed.
C3_DeltaOnlyWhenBothPresent ==
    (Summarised /\ OrderedRange) =>
        \A k \in CardKeys :
            IF EntriesInRangeOn(today_date) # {} /\ DaysWithData # {}
            THEN /\ card[k].has_delta
                 /\ FloatEq(card[k].delta, FloatSub(today_metrics[k], daily_metrics[k]))
            ELSE ~card[k].has_delta

\* C4 (as claimed): for a range with start <= end, today's totals are the sums
\* over the entries dated today, also when today lies outside the range.
C4_TodayRegardlessOfRange ==
    (Summarised /\ OrderedRange) =>
        \A k \in CardKeys :
            today_metrics[k] = Num(DirectSum(df.rows, EntriesOn(df.rows, today_date), k))

\* C4 (amended): today's totals are the sums over the entries dated today that
\* lie in the selected range; with today outside the range no entry
\* contributes to them.
C4_TodayWithinRange ==
    Summarised =>
        \A k \in CardKeys :
            today_metrics[k] = Num(DirectSum(df.rows, EntriesInRangeOn(today_date), k))

\* C4 witness: today has an entry with calories, the range ends before today,
\* and today's card total is the empty sum.
C4_Witness ==
    /\ Summarised
    /\ date_range[1] <= date_range[2]
    /\ date_range[2] < today_date
    /\ DirectSum(df.rows, EntriesOn(df.rows, today_date), "Calories (kcal)") > 0
    /\ today_metrics["Calories (kcal)"] = Num(0)

\* C5: the range average of each nutrient is the mean of the per-day sums over
\* exactly the days of the range that have an entry; a range with entries on
\* one day only has that day's totals as its average.
C5_AverageOverDaysWithData ==
    (Summarised /\ DaysWithData # {}) =>
        \A k \in CardKeys :
            /\ FloatEq(daily_metrics[k],
                       <<SumOfDays(DaysWithData, k), Cardinality(DaysWithData)>>)
            /\ \A d \in DaysWithData :
                  DaysWithData = {d} =>
                      daily_metrics[k] = Num(DirectSum(df.rows, EntriesInRangeOn(d), k))

\* C5 witness: a three-day range with entries on its first and last day only,
\* whose average divides by two.
C5_Witness ==
    /\ Summarised
    /\ date_range = <<1, 3>>
    /\ DaysWithData = {1, 3}
    /\ daily_metrics["Calories (kcal)"] = <<1, 2>>

C7_AllAbsentIsUnavailable ==
    (Totalled /\ OrderedRange) =>
        \A j \in 1..Len(daily_totals) : \A k \in TotalsKeys :
            (\A i \in EntriesOn(filtered_df, daily_totals[j].Date) :
                isna(filtered_df[i].fields[k]))
            => isna(daily_totals[j].sums[k])

\* C8: the food ranking holds, for the selected nutrient, the items of the
\* entries dated in the range with the sum of the nutrient over their entries
\* (absent as 0), largest first, min(10, number of items) rows, and no item
\* left out has a larger sum than a row.
ItemsInRange == {df.rows[i].ItemName : i \in EntriesInRange}
ItemSum(item) ==
    DirectSum(df.rows, {i \in EntriesInRange : df.rows[i].ItemName = item},
              selected_nutrient)
Ranked == {nutrient_by_food[j].ItemName : j \in 1..Len(nutrient_by_food)}
C8_FoodRanking ==
    (pc = "done" /\ Len(date_range) = 2) =>
        /\ Len(nutrient_by_food) =
              (IF Cardinality(ItemsInRange) < 10 THEN Cardinality(ItemsInRange) ELSE 10)
        /\ Cardinality(Ranked) = Len(nutrient_by_food)
        /\ Ranked \subseteq ItemsInRange
        /\ \A j \in 1..Len(nutrient_by_food) :
              nutrient_by_food[j].sum = Num(ItemSum(nutrient_by_food[j].ItemName))
        /\ \A i, j \in 1..Len(nutrient_by_food) :
              i < j => ~FloatLess(nutrient_by_food[i].sum, nutrient_by_food[j].sum)
        /\ \A item \in ItemsInRange \ Ranked : \A j \in 1..Len(nutrient_by_food) :
              ~FloatLess(nutrient_by_food[j].sum, Num(ItemSum(item)))

\* C8 witness: eleven items in the range, ten rows, the first with a larger
\* sum than the last.
C8_Witness ==
    /\ pc = "done"
    /\ Cardinality(ItemsInRange) > 10
    /\ Len(nutrient_by_food) = 10
    /\ FloatLess(nutrient_by_food[10].sum, nutrient_by_food[1].sum)

\* C9: the daily totals hold a date d exactly once if some entry has date d
\* and start <= d <= end, and not at all otherwise.
C9_DatesOfDailyTotals ==
    Totalled =>
        \A d \in Dates :
            Cardinality({j \in 1..Len(daily_totals) : daily_totals[j].Date = d})
                = (IF \E i \in 1..Len(df.rows) :
                         /\ df.rows[i].Date = d
                         /\ date_range[1] <= d
                         /\ d <= date_range[2]
                   THEN 1 ELSE 0)

\* C9 witness: start = end, entries on that day and on another one, and that
\* single day in the daily totals.
C9_Witness ==
    /\ Totalled
    /\ date_range[1] = date_range[2]
    /\ \E i \in 1..Len(df.rows) : df.rows[i].Date # date_range[1]
    /\ Len(daily_totals) = 1
    /\ daily_totals[1].Date = date_range[1]

\* C10: a run whose load returned None or no rows stops at the guard with
\* nothing filtered, aggregated or ranked, and a run started by Refresh Data
\* loads with the cache cleared.
C10_StopsOnNoData ==
    /\ (pc \notin {"button", "load", "guard"} /\ (df = None \/ Len(df.rows) = 0)) =>
          /\ pc = "stopped"
          /\ date_range = Unset
          /\ filtered_df = Unset
          /\ today_metrics = Unset
          /\ daily_metrics = Unset
          /\ card = Unset
          /\ daily_totals = Unset
          /\ nutrient_by_food = Unset
    /\ (pc = "load" /\ refresh) => cache = NoCache

\* C10 witness: a run started by Refresh Data that stopped on a table without
\* records.
C10_Witness ==
    /\ pc = "stopped"
    /\ refresh
    /\ df = DataFrame(<<>>)

====
